---- MODULE Spec2Model ----
(***************************************************************************)
(* Reactive speciation move (SpeciationMove) of the Faunus Monte Carlo     *)
(* engine, together with the two Space instances of MCSimulation           *)
(* (state1 = accepted, state2 = trial), the Change descriptor that is      *)
(* handed from the move to the driver, and the Widom insertion analysis    *)
(* that samples on the accepted Space.                                     *)
(*                                                                         *)
(* Indices follow the C++ code: group indices and atom indices relative    *)
(* to a group are 0-based; Slot() converts to the 1-based TLA+ sequences.  *)
(***************************************************************************)
EXTENDS Integers, Sequences, FiniteSets, TLC

(* ---------------- bounds of the model ---------------------------------- *)
CapNa == 4          \* capacity of the atomic "Na" reservoir group
MaxSteps == 2       \* number of MC steps explored
NRandPos == 1       \* number of distinct outcomes of Geometry::randompos
MaxCalls == 6       \* calls of Analysisbase::sample explored
MaxNstep == 3       \* largest nstep of an analysis
MaxNskip == 2       \* largest nskip of an analysis
MaxEntries == 2     \* largest number of entries of the analysis section
MaxField == 2       \* largest value of a field of a particle shape
MaxVolume == 4      \* largest cell volume of the virtual volume analysis
MaxEnergy == 3      \* energies are drawn from -MaxEnergy..MaxEnergy
max_exp_argument == 2  \* pc::max_exp_argument, scaled to the energies drawn

(* ---------------- topology (atom, molecule and reaction tables) -------- *)
\* molecule table: id -> atomic flag, atom ids of one group, capacity; X is
\* defined but no group of it is inserted
molecules ==
    [Na |-> [atomic |-> TRUE,  atoms |-> <<"Na">>,      bonded |-> FALSE],
     Cl |-> [atomic |-> TRUE,  atoms |-> <<"Cl">>,      bonded |-> FALSE],
     M  |-> [atomic |-> FALSE, atoms |-> <<"HA", "B">>, bonded |-> TRUE],
     X  |-> [atomic |-> TRUE,  atoms |-> <<"X">>,       bonded |-> FALSE]]

\* insertmolecules: the groups the Space is built from, in order; an atomic
\* molecule gets one group of N atoms, a molecular one N groups
insertmolecules ==
    << [molecule |-> "Na", N |-> CapNa,     inactive |-> FALSE],
       [molecule |-> "Cl", N |-> CapNa - 2, inactive |-> FALSE],
       [molecule |-> "M",  N |-> 2,         inactive |-> FALSE],
       [molecule |-> "M",  N |-> 1,         inactive |-> TRUE] >>

\* reaction table; multisets are kept as std::map would iterate them
\* (ascending molecule id), one <<id, multiplicity>> pair per species; N is
\* the set of initial values of N_reservoir that are explored
reactions ==
    << [name |-> "NaCl = Na + Cl", canonic |-> TRUE,  swap |-> FALSE, lnK |-> 1,
        N |-> {0, 1},
        reag_m |-> << >>, prod_m |-> << <<"Na", 1>>, <<"Cl", 1>> >>,
        reag_a |-> << >>, prod_a |-> << >>],
       [name |-> "M + M = Na + Na", canonic |-> FALSE, swap |-> FALSE, lnK |-> 2,
        N |-> {0},
        reag_m |-> << <<"M", 2>> >>, prod_m |-> << <<"Na", 2>> >>,
        reag_a |-> << >>, prod_a |-> << >>],
       [name |-> "HA = A", canonic |-> FALSE, swap |-> TRUE, lnK |-> 3,
        N |-> {0},
        reag_m |-> << >>, prod_m |-> << >>,
        reag_a |-> << <<"HA", 1>> >>, prod_a |-> << <<"A", 1>> >>],
       [name |-> "X = Cl + Cl", canonic |-> TRUE, swap |-> FALSE, lnK |-> 4,
        N |-> {0, 1},
        reag_m |-> << <<"X", 1>> >>, prod_m |-> << <<"Cl", 2>> >>,
        reag_a |-> << >>, prod_a |-> << >>] >>

Reactions == 1..Len(reactions)

\* the reactions whose atomic molecules all have exactly one group; an input
\* file with these reactions only is well defined
GoodReactions == {r \in Reactions :
                    \A m \in {reactions[r].reag_m[i] : i \in 1..Len(reactions[r].reag_m)} \cup
                            {reactions[r].prod_m[i] : i \in 1..Len(reactions[r].prod_m)} :
                        m[1] \in {insertmolecules[i].molecule : i \in 1..Len(insertmolecules)}}

\* ReactionData::Molecules2Add(forward): the molecules on the side that is added
Molecules2Add(r, fwd) == IF fwd THEN reactions[r].prod_m ELSE reactions[r].reag_m

\* ReactionData::Atoms2Add(forward): the atoms on the side that is added
Atoms2Add(r, fwd) == IF fwd THEN reactions[r].prod_a ELSE reactions[r].reag_a

\* ReactionData::empty(forward): the canonic reservoir is exhausted
ReactionEmpty(r, fwd, nres) == fwd /\ reactions[r].canonic /\ nres[r] <= 0

(* ---------------- particles, groups, Space ----------------------------- *)
CapCl == insertmolecules[2].N
MolCap == Len(molecules["M"].atoms)
NMol == insertmolecules[3].N                    \* M groups inserted active
NGroups == 2 + NMol + insertmolecules[4].N      \* Na, Cl, active M, inactive M
NParticles == CapNa + CapCl + MolCap * (NGroups - 2)

\* 1-based position in Space::p of the atom with 0-based index i in group g
Slot(g, i) == g.begin + i + 1

\* std::iter_swap on two elements of a particle vector
IterSwap(p, a, b) == [p EXCEPT ![a] = p[b], ![b] = p[a]]

\* Group::begin offset and capacity of the k-th group (k is 1-based)
GroupBegin(k) == IF k = 1 THEN 0
                 ELSE IF k = 2 THEN CapNa
                 ELSE CapNa + CapCl + MolCap * (k - 3)
GroupMol(k) == IF k = 1 THEN "Na" ELSE IF k = 2 THEN "Cl" ELSE "M"
GroupCap(k) == IF k = 1 THEN CapNa ELSE IF k = 2 THEN CapCl ELSE MolCap

\* the group (1-based) that owns slot s, and the atom id the topology puts there
OwnerOf(s) == CHOOSE k \in 1..NGroups : GroupBegin(k) < s /\ s <= GroupBegin(k) + GroupCap(k)
TemplateId(s) == molecules[GroupMol(OwnerOf(s))].atoms[
                    IF molecules[GroupMol(OwnerOf(s))].atomic THEN 1
                    ELSE s - GroupBegin(OwnerOf(s))]

\* Space after topology load: every slot allocated, distinct positions
InitSpace(naSize, clSize) ==
    [p |-> [s \in 1..NParticles |-> [id |-> TemplateId(s), pos |-> s]],
     groups |-> [k \in 1..NGroups |->
                   [id |-> GroupMol(k), begin |-> GroupBegin(k),
                    capacity |-> GroupCap(k),
                    size |-> IF k = 1 THEN naSize
                             ELSE IF k = 2 THEN clSize
                             ELSE IF k > 2 + NMol THEN 0 ELSE MolCap,
                    atomic |-> molecules[GroupMol(k)].atomic,
                    cm |-> IF k <= 2 THEN 0 ELSE GroupBegin(k) + 1]]]

\* Space::findMolecules(molid, sel): 1-based indices of the matching groups;
\* the sequence is lazy, so it is evaluated on the Space as it is when traversed
findMolecules(spc, molid, sel) ==
    SelectSeq([k \in 1..Len(spc.groups) |-> k],
              LAMBDA k : /\ spc.groups[k].id = molid
                         /\ CASE sel = "ALL" -> TRUE
                              [] sel = "ACTIVE" -> spc.groups[k].size > 0
                              [] sel = "INACTIVE" -> spc.groups[k].size = 0)

\* Space::findAtoms(atomid): 1-based slots of the active particles with that id
findAtoms(spc, atomid) ==
    SelectSeq([s \in 1..Len(spc.p) |-> s],
              LAMBDA s : /\ spc.p[s].id = atomid
                         /\ \E k \in 1..Len(spc.groups) :
                               /\ spc.groups[k].begin < s
                               /\ s <= spc.groups[k].begin + spc.groups[k].size)

\* Space::findGroupContaining(particle): 1-based index of the owning group
findGroupContaining(spc, s) ==
    CHOOSE k \in 1..Len(spc.groups) :
        spc.groups[k].begin < s /\ s <= spc.groups[k].begin + spc.groups[k].capacity

(* ---------------- Change descriptor ------------------------------------ *)
\* Change::data with its default member values
ChangeData == [index |-> 0, all |-> FALSE, internal |-> FALSE,
               dNatomic |-> FALSE, dNswap |-> FALSE, atoms |-> << >>]

\* Change after clear()
EmptyChange == [dN |-> FALSE, groups |-> << >>]

\* Change::empty()
ChangeIsEmpty(c) == c.groups = << >> /\ ~c.dN

\* std::sort on a vector of atom indices (ascending)
RECURSIVE SortAtoms(_)
SortAtoms(s) ==
    IF Len(s) <= 1 THEN s
    ELSE LET m == CHOOSE i \in 1..Len(s) : \A j \in 1..Len(s) : s[i] <= s[j]
         IN  <<s[m]>> \o SortAtoms([j \in 1..(Len(s) - 1) |-> IF j < m THEN s[j] ELSE s[j + 1]])

\* mutant of SortGroups: the entries stay in the order they were pushed
SortGroups_None(s) == s

\* std::sort(change.groups.begin(), change.groups.end()): Change::data is
\* ordered by its group index
RECURSIVE SortGroups(_)
SortGroups(s) ==
    IF Len(s) <= 1 THEN s
    ELSE LET m == CHOOSE i \in 1..Len(s) :
                     /\ \A j \in 1..Len(s) : s[i].index <= s[j].index
                     /\ \A j \in 1..(i - 1) : s[j].index > s[i].index
         IN  <<s[m]>> \o SortGroups([j \in 1..(Len(s) - 1) |-> IF j < m THEN s[j] ELSE s[j + 1]])

(* ---------------- random numbers --------------------------------------- *)
RECURSIVE SumCounts(_)
SumCounts(ms) == IF ms = << >> THEN 0 ELSE ms[1][2] + SumCounts(Tail(ms))

\* draws of slump.sample() one reaction can make: one per deleted atom or
\* molecule, one per inserted molecule, one for the swapped atom
DrawsOf(r) == SumCounts(reactions[r].reag_m) + SumCounts(reactions[r].prod_m) +
              SumCounts(reactions[r].reag_a)
PickLen == CHOOSE n \in 0..20 : /\ \A r \in Reactions : DrawsOf(r) <= n
                                /\ \E r \in Reactions : DrawsOf(r) = n

\* the random stream of one move: picks[k] feeds the k-th slump.sample(),
\* places[k] the k-th random placement (randompos, random rotation).
\* PickStreams(ns): every stream whose k-th draw is an index into ns[k] elements
RECURSIVE PickStreams(_)
PickStreams(ns) ==
    IF ns = << >> THEN {<< >>}
    ELSE {<<x>> \o t : x \in 0..(ns[1] - 1), t \in PickStreams(Tail(ns))}
PlaceStreams(n) == [1..n -> 1..NRandPos]
ZeroStream == [k \in 1..PickLen |-> 0]
OneStream == [k \in 1..PickLen |-> 1]

\* Random::sample(begin, end) over n elements: 0-based index of the element
Sample(x, n) == x % n

\* Geometry::randompos: a position inside the cell; none of them is an
\* initial position
RandomPos(x) == 100 + x

\* position of a bead of a molecule inserted with placement x, rel being the
\* bead's offset from the first bead: the translation to a random mass centre
\* and the random rotation are rigid, so the internal geometry is kept
PlacedPos(x, rel) == 200 + 10 * x + rel

\* intramolecular bonded energy of the molecular group g (one bond 0-1)
BondEnergy(spc, g) ==
    LET a == spc.p[Slot(g, 0)].pos
        b == spc.p[Slot(g, 1)].pos
    IN  IF a > b THEN a - b ELSE b - a

(* ---------------- SpeciationMove::_move -------------------------------- *)
\* Group::deactivate / Group::activate on the group with 1-based index gi
Resize(spc, gi, n) == [spc EXCEPT !.groups[gi].size = n]

\* feasibility of one remove-set entry m = <<molid, count>>: "ok", "return"
\* (slip out the back door) or "throw" (bad definition)
DeleteCheck(spc, m) ==
    IF molecules[m[1]].atomic
    THEN LET mollist == findMolecules(spc, m[1], "ALL")
         IN  IF Len(mollist) # 1 THEN "throw"
             ELSE IF spc.groups[mollist[1]].size < m[2] THEN "return"
             ELSE "ok"
    ELSE IF Len(findMolecules(spc, m[1], "ACTIVE")) < m[2] THEN "return" ELSE "ok"

\* mutant of AddCheck: the headroom test is off by one
AddCheck_OffByOne(spc, m) ==
    IF molecules[m[1]].atomic
    THEN LET mollist == findMolecules(spc, m[1], "ALL")
         IN  IF Len(mollist) # 1 THEN "throw"
             ELSE IF spc.groups[mollist[1]].size + m[2] > spc.groups[mollist[1]].capacity + 1
                  THEN "return"
             ELSE "ok"
    ELSE IF Len(findMolecules(spc, m[1], "INACTIVE")) < m[2] THEN "return" ELSE "ok"

\* feasibility of one add-set entry
AddCheck(spc, m) ==
    IF molecules[m[1]].atomic
    THEN LET mollist == findMolecules(spc, m[1], "ALL")
         IN  IF Len(mollist) # 1 THEN "throw"
             ELSE IF spc.groups[mollist[1]].size + m[2] > spc.groups[mollist[1]].capacity
                  THEN "return"
             ELSE "ok"
    ELSE IF Len(findMolecules(spc, m[1], "INACTIVE")) < m[2] THEN "return" ELSE "ok"

\* the check loops stop at the first entry that returns or throws
RECURSIVE DeleteChecks(_, _)
DeleteChecks(spc, ms) ==
    IF ms = << >> THEN "ok"
    ELSE IF DeleteCheck(spc, ms[1]) # "ok" THEN DeleteCheck(spc, ms[1])
    ELSE DeleteChecks(spc, Tail(ms))

RECURSIVE AddChecks(_, _)
AddChecks(spc, ms) ==
    IF ms = << >> THEN "ok"
    ELSE IF AddCheck(spc, ms[1]) # "ok" THEN AddCheck(spc, ms[1])
    ELSE AddChecks(spc, Tail(ms))

\* the swap is done only if the picked atom is more than one slot away from
\* the last active atom
SwapNeeded(ait, nait) == nait - ait > 1

\* the two 0-based indices swapped in the peer group (size osize, unchanged
\* while the trial group shrinks), for the pick at distance dist from the
\* trial group's end in iteration N
\* mutants of OtherFirst and OtherSecond: the iteration count is left out
OtherFirst_NoN(osize, dist, N) == osize - dist
OtherSecond_NoN(osize, N) == osize - 1

OtherFirst(osize, dist, N) == osize - dist - N
OtherSecond(osize, N) == osize - (1 + N)

\* mutants of MirrorSwap: the swap is not mirrored; the picked atom is
\* overwritten instead of swapped
MirrorSwap_Dropped(op, og, dist, N) == op
MirrorSwap_Copy(op, og, dist, N) ==
    [op EXCEPT ![Slot(og, og.size - dist - N)] = op[Slot(og, og.size - (1 + N))]]

\* the swap mirrored in the peer Space
MirrorSwap(op, og, dist, N) ==
    IterSwap(op, Slot(og, OtherFirst(og.size, dist, N)), Slot(og, OtherSecond(og.size, N)))

\* one iteration of the atomic deletion loop on trial group gi
AtomicDeleteOne(st, gi, N) ==
    LET g == st.spc.groups[gi]
        og == st.other.groups[findMolecules(st.other, g.id, "ALL")[1]]
        ait == Sample(st.picks[st.k], g.size)
        nait == g.size - 1
        dist == g.size - ait
        swp == SwapNeeded(ait, nait)
        p2 == IF swp THEN IterSwap(st.spc.p, Slot(g, ait), Slot(g, nait)) ELSE st.spc.p
        op2 == IF swp THEN MirrorSwap(st.other.p, og, dist, N) ELSE st.other.p
    IN  [st EXCEPT !.spc = Resize([st.spc EXCEPT !.p = p2], gi, g.size - 1),
                   !.other = [st.other EXCEPT !.p = op2],
                   !.d = [st.d EXCEPT !.atoms = Append(st.d.atoms, nait)],
                   !.picked = Append(st.picked, [group |-> gi, particle |-> st.spc.p[Slot(g, ait)],
                                                 index |-> ait, size |-> g.size]),
                   !.ns = Append(st.ns, g.size),
                   !.k = st.k + 1]

RECURSIVE AtomicDeleteLoop(_, _, _, _)
AtomicDeleteLoop(st, gi, count, N) ==
    IF N >= count THEN st
    ELSE AtomicDeleteLoop(AtomicDeleteOne(st, gi, N), gi, count, N + 1)

\* deletion of count atoms from the single group of an atomic molecule
AtomicDelete(st, molid, count) ==
    LET gi == findMolecules(st.spc, molid, "ALL")[1]
        d0 == [ChangeData EXCEPT !.index = gi - 1, !.internal = TRUE, !.dNatomic = TRUE]
        st2 == AtomicDeleteLoop([st EXCEPT !.d = d0], gi, count, 0)
    IN  [st2 EXCEPT !.groups = Append(st2.groups,
                                      [st2.d EXCEPT !.atoms = SortAtoms(st2.d.atoms)])]

\* one iteration of the molecular deletion loop
MolecularDeleteOne(st, molid) ==
    LET mollist == findMolecules(st.spc, molid, "ACTIVE")
        gi == mollist[Sample(st.picks[st.k], Len(mollist)) + 1]
        g == st.spc.groups[gi]
        d == [ChangeData EXCEPT !.index = gi - 1, !.all = TRUE, !.internal = TRUE,
                                !.atoms = [i \in 1..g.capacity |-> i - 1]]
    IN  [st EXCEPT !.bondenergy = st.bondenergy +
                        (IF molecules[molid].bonded THEN BondEnergy(st.spc, g) ELSE 0),
                   !.spc = Resize(st.spc, gi, 0),
                   !.groups = Append(st.groups, d),
                   !.ns = Append(st.ns, Len(mollist)),
                   !.k = st.k + 1]

RECURSIVE MolecularDelete(_, _, _)
MolecularDelete(st, molid, count) ==
    IF count = 0 THEN st
    ELSE MolecularDelete(MolecularDeleteOne(st, molid), molid, count - 1)

\* the deletion loop over the remove-set
RECURSIVE DeletePhase(_, _)
DeletePhase(st, ms) ==
    IF ms = << >> THEN st
    ELSE DeletePhase(IF molecules[ms[1][1]].atomic
                     THEN AtomicDelete(st, ms[1][1], ms[1][2])
                     ELSE MolecularDelete(st, ms[1][1], ms[1][2]),
                     Tail(ms))

\* mutant of AtomicInsertOne: the index past the activated atom is recorded
AtomicInsertOne_Past(st, gi) ==
    LET g == st.spc.groups[gi]
        ait == g.size
    IN  [st EXCEPT !.spc = Resize([st.spc EXCEPT !.p[Slot(g, ait)].pos =
                                        RandomPos(st.places[st.kp])], gi, g.size + 1),
                   !.d = [st.d EXCEPT !.atoms = Append(st.d.atoms, ait + 1)],
                   !.kp = st.kp + 1]

\* one iteration of the atomic insertion loop on trial group gi
AtomicInsertOne(st, gi) ==
    LET g == st.spc.groups[gi]
        ait == g.size                     \* git->end() - 1 after activation
    IN  [st EXCEPT !.spc = Resize([st.spc EXCEPT !.p[Slot(g, ait)].pos =
                                        RandomPos(st.places[st.kp])], gi, g.size + 1),
                   !.d = [st.d EXCEPT !.atoms = Append(st.d.atoms, ait)],
                   !.kp = st.kp + 1]

RECURSIVE AtomicInsertLoop(_, _, _)
AtomicInsertLoop(st, gi, count) ==
    IF count = 0 THEN st
    ELSE AtomicInsertLoop(AtomicInsertOne(st, gi), gi, count - 1)

\* insertion of count atoms into the single group of an atomic molecule
AtomicInsert(st, molid, count) ==
    LET gi == findMolecules(st.spc, molid, "ALL")[1]
        d0 == [ChangeData EXCEPT !.index = gi - 1, !.internal = TRUE, !.dNatomic = TRUE]
        st2 == AtomicInsertLoop([st EXCEPT !.d = d0], gi, count)
    IN  [st2 EXCEPT !.groups = Append(st2.groups,
                                      [st2.d EXCEPT !.atoms = SortAtoms(st2.d.atoms)])]

\* one iteration of the molecular insertion loop
MolecularInsertOne(st, molid) ==
    LET mollist == findMolecules(st.spc, molid, "INACTIVE")
        gi == mollist[Sample(st.picks[st.k], Len(mollist)) + 1]
        g == st.spc.groups[gi]
        x == st.places[st.kp]
        p2 == [s \in 1..Len(st.spc.p) |->
                 IF g.begin < s /\ s <= g.begin + g.capacity
                 THEN [st.spc.p[s] EXCEPT !.pos =
                          PlacedPos(x, st.spc.p[s].pos - st.spc.p[Slot(g, 0)].pos)]
                 ELSE st.spc.p[s]]
        spc2 == [st.spc EXCEPT !.p = p2,
                               !.groups[gi].size = g.capacity,
                               !.groups[gi].cm = PlacedPos(x, 0)]
        d == [ChangeData EXCEPT !.index = gi - 1, !.all = TRUE, !.internal = TRUE,
                                !.atoms = [i \in 1..g.capacity |-> i - 1]]
    IN  [st EXCEPT !.spc = spc2,
                   !.bondenergy = st.bondenergy -
                        (IF molecules[molid].bonded THEN BondEnergy(spc2, spc2.groups[gi]) ELSE 0),
                   !.groups = Append(st.groups, d),
                   !.ns = Append(st.ns, Len(mollist)),
                   !.k = st.k + 1,
                   !.kp = st.kp + 1]

\* mutant of MolecularInsert: one group is activated whatever the multiplicity
MolecularInsert_Once(st, molid, count) == MolecularInsertOne(st, molid)

RECURSIVE MolecularInsert(_, _, _)
MolecularInsert(st, molid, count) ==
    IF count = 0 THEN st
    ELSE MolecularInsert(MolecularInsertOne(st, molid), molid, count - 1)

\* the insertion loop over the add-set
RECURSIVE InsertPhase(_, _)
InsertPhase(st, ms) ==
    IF ms = << >> THEN st
    ELSE InsertPhase(IF molecules[ms[1][1]].atomic
                     THEN AtomicInsert(st, ms[1][1], ms[1][2])
                     ELSE MolecularInsert(st, ms[1][1], ms[1][2]),
                     Tail(ms))

\* mutant of SwapAtom: the Change records the atom's index in the particle
\* vector instead of its index relative to the group
SwapAtom_Absolute(st, m1, m2) ==
    LET atomlist == findAtoms(st.spc, m1)
        ait == atomlist[Sample(st.picks[st.k], Len(atomlist)) + 1]
        gi == findGroupContaining(st.spc, ait)
        d == [ChangeData EXCEPT !.atoms = <<ait - 1>>,
                                !.index = gi - 1, !.internal = TRUE, !.dNswap = TRUE]
    IN  [st EXCEPT !.groups = Append(st.groups, d),
                   !.spc = [st.spc EXCEPT !.p[ait] = [id |-> m2, pos |-> st.spc.p[ait].pos]],
                   !.ns = Append(st.ns, Len(atomlist)),
                   !.k = st.k + 1]

\* the swap sub-case: one active atom of the outgoing species m1 gets the
\* id of the incoming species m2 and keeps its position
SwapAtom(st, m1, m2) ==
    LET atomlist == findAtoms(st.spc, m1)
        ait == atomlist[Sample(st.picks[st.k], Len(atomlist)) + 1]
        gi == findGroupContaining(st.spc, ait)
        d == [ChangeData EXCEPT !.atoms = <<ait - st.spc.groups[gi].begin - 1>>,
                                !.index = gi - 1, !.internal = TRUE, !.dNswap = TRUE]
    IN  [st EXCEPT !.groups = Append(st.groups, d),
                   !.spc = [st.spc EXCEPT !.p[ait] = [id |-> m2, pos |-> st.spc.p[ait].pos]],
                   !.ns = Append(st.ns, Len(atomlist)),
                   !.k = st.k + 1]

\* the state the move works on: the trial Space, the peer Space, the Change
\* under construction and the position in the random stream
MoveState(spc, other, picks, places) ==
    [spc |-> spc, other |-> other, groups |-> << >>, dN |-> FALSE, d |-> ChangeData,
     bondenergy |-> 0, picks |-> picks, places |-> places, k |-> 1, kp |-> 1,
     picked |-> << >>, ns |-> << >>, exit |-> "none"]

\* mutant of ResetBondEnergy: the bond energy of the previous move is kept
ResetBondEnergy_Kept(st) == [st EXCEPT !.dN = TRUE]

\* bondenergy = 0 and change.dN = true, after the checks and the swap
ResetBondEnergy(st) == [st EXCEPT !.bondenergy = 0, !.dN = TRUE]

\* mutant of EarlyReturn: dN is set before the checks
EarlyReturn_dN(st, why) == [st EXCEPT !.exit = why, !.dN = TRUE]

\* a return (or throw) of _move before its first modification: the Change is
\* left as Movebase::move cleared it
EarlyReturn(st, why) == [st EXCEPT !.exit = why]

\* the exits of _move that return an empty Change
EarlyExits == {"reservoir", "delete-check", "add-check", "swap-check"}

\* SpeciationMove::_move on Space spc with peer otherspc, reaction r, direction
\* fwd; olde is the bondenergy left by the previous move
_move(spc, other, nres, olde, r, fwd, picks, places) ==
    LET st0 == [MoveState(spc, other, picks, places) EXCEPT !.bondenergy = olde]
        del == DeleteChecks(spc, Molecules2Add(r, ~fwd))
        add == AddChecks(spc, Molecules2Add(r, fwd))
    IN  IF ReactionEmpty(r, fwd, nres) THEN EarlyReturn(st0, "reservoir")
        ELSE IF del # "ok" THEN EarlyReturn(st0, IF del = "throw" THEN "throw" ELSE "delete-check")
        ELSE IF add # "ok" THEN EarlyReturn(st0, IF add = "throw" THEN "throw" ELSE "add-check")
        ELSE IF reactions[r].swap /\ Len(findAtoms(spc, Atoms2Add(r, ~fwd)[1][1])) < 1
             THEN EarlyReturn(st0, "swap-check")
        ELSE LET st1 == IF reactions[r].swap
                        THEN SwapAtom(st0, Atoms2Add(r, ~fwd)[1][1], Atoms2Add(r, fwd)[1][1])
                        ELSE st0
                 st2 == ResetBondEnergy(st1)
                 st3 == DeletePhase(st2, Molecules2Add(r, ~fwd))
                 st4 == InsertPhase(st3, Molecules2Add(r, fwd))
             IN  [st4 EXCEPT !.groups = SortGroups(st4.groups), !.exit = "done"]

\* the draws one call of _move makes: the number of candidates of each
\* slump.sample() and the number of random placements (neither depends on the
\* outcome of an earlier draw)
DrawSizes(spc, other, nres, r, fwd) ==
    _move(spc, other, nres, 0, r, fwd, ZeroStream, OneStream).ns
DrawPlaces(spc, other, nres, r, fwd) ==
    _move(spc, other, nres, 0, r, fwd, ZeroStream, OneStream).kp - 1

\* SpeciationMove::bias
bias(fwd, lnk, be) == IF fwd THEN -lnk + be ELSE lnk + be

\* mutant of _accept: the sign of the update is reversed
_accept_Flipped(nres, r, fwd) == [nres EXCEPT ![r] = nres[r] + (IF fwd THEN 1 ELSE -1)]

\* SpeciationMove::_accept: the reservoir counter of the sampled reaction
_accept(nres, r, fwd) == [nres EXCEPT ![r] = nres[r] + (IF fwd THEN -1 ELSE 1)]

\* the fatal error of _accept
AcceptThrows(nres, r) == nres[r] < 0 /\ reactions[r].canonic

\* mutant of _reject: the reservoir is updated as on accept
_reject_Updates(nres, r, fwd) == _accept(nres, r, fwd)

\* SpeciationMove::_reject: statistics only
_reject(nres, r, fwd) == nres

(* ---------------- Space::sync ------------------------------------------ *)
\* copy of the part of Space other that one Change::data entry m describes
SyncGroup(this, other, m) ==
    LET gi == m.index + 1
        g == other.groups[gi]
        copied == IF m.all THEN {i \in 0..(g.capacity - 1) : TRUE}
                  ELSE {m.atoms[i] : i \in 1..Len(m.atoms)}
    IN  [p |-> [s \in 1..Len(this.p) |->
                  IF \E i \in copied : s = Slot(g, i) THEN other.p[s] ELSE this.p[s]],
         groups |-> [this.groups EXCEPT ![gi].size = g.size, ![gi].cm = g.cm]]

\* Space::sync(other, change): copy the slots and the group data the Change
\* names from other into this
RECURSIVE SyncGroups(_, _, _)
SyncGroups(this, other, ms) ==
    IF ms = << >> THEN this
    ELSE SyncGroups(SyncGroup(this, other, ms[1]), other, Tail(ms))

sync(this, other, chg) == SyncGroups(this, other, chg.groups)

(* ---------------- WidomInsertion --------------------------------------- *)
\* WidomInsertion::_from_json: the Change of the analysis names the first
\* inactive group of the ghost molecule (0-based group index)
WidomGhost(spc, molid) == findMolecules(spc, molid, "INACTIVE")[1] - 1

\* RandomInserter (rins): the particles of one molecule of the topology, in
\* the order of the molecule's atom list, at positions of the inserter
rins(molid) ==
    [i \in 1..Len(molecules[molid].atoms) |-> [id |-> molecules[molid].atoms[i], pos |-> 0]]

\* the 0-based indices of pin that _sample passes to Geometry::randompos
WidomTouched == {0, 1}

\* spc.geo.randompos(pin[0].pos) and spc.geo.randompos(pin[1].pos): the
\* elements of pin that exist get the random positions a and b
WidomRandomPos(pin, a, b) ==
    [i \in 1..Len(pin) |->
        IF i = 1 THEN [pin[i] EXCEPT !.pos = RandomPos(a)]
        ELSE IF i = 2 THEN [pin[i] EXCEPT !.pos = RandomPos(b)]
        ELSE pin[i]]

\* one ghost insertion: rins() builds the molecule, pin[0] and pin[1] get
\* random positions, pin is copied to the start of the ghost group and the
\* mass centre of a molecular group is recomputed
WidomInsertOne(spc, gi, a, b) ==
    LET g == spc.groups[gi]
        pin == WidomRandomPos(rins(g.id), a, b)
        p2 == [s \in 1..Len(spc.p) |->
                 IF Slot(g, 0) <= s /\ s <= Slot(g, Len(pin) - 1)
                 THEN pin[s - g.begin]
                 ELSE spc.p[s]]
    IN  [spc EXCEPT !.p = p2,
                    !.groups[gi].cm = IF g.atomic THEN g.cm ELSE RandomPos(a)]

RECURSIVE WidomInsertLoop(_, _, _)
WidomInsertLoop(spc, gi, draws) ==
    IF draws = << >> THEN spc
    ELSE WidomInsertLoop(WidomInsertOne(spc, gi, draws[1][1], draws[1][2]), gi, Tail(draws))

\* mutant of Widom_sample: the inserted particles are appended to the
\* particle vector instead of being copied into the ghost group
Widom_sample_PushBack(spc, index, draws) ==
    [spc EXCEPT !.p = spc.p \o [i \in 1..Len(draws) |->
                                  [id |-> molecules[spc.groups[index + 1].id].atoms[1],
                                   pos |-> RandomPos(draws[i][1])]]]

\* WidomInsertion::_sample on Space spc: activate the ghost group, insert
\* ninsert = Len(draws) times, deactivate the ghost group
Widom_sample(spc, index, draws) ==
    LET gi == index + 1
        on == Resize(spc, gi, spc.groups[gi].capacity)
    IN  Resize(WidomInsertLoop(on, gi, draws), gi, 0)

(* ---------------- Analysisbase, SaveState, SanityCheck ------------------ *)
\* the kinds of analysis modelled: "analysis" is any analysis that keeps the
\* defaults of Analysisbase
AnalysisKinds == {"analysis", "savestate", "sanity"}

\* an analysis after its constructor: from_json reads nstep and nskip, the
\* counters start at zero; runs counts the executions of _sample(), insample
\* those made by sample(), calls the calls of sample()
NewAnalysis(kind, nstep, nskip) ==
    [kind |-> kind, steps |-> nstep, nskip |-> nskip,
     stepcnt |-> 0, totstepcnt |-> 0, cnt |-> 0,
     calls |-> 0, runs |-> 0, insample |-> 0, invoked |-> FALSE,
     alive |-> TRUE, last |-> "none"]

\* no analysis in the input
NoAnalysis == [NewAnalysis("none", 0, 0) EXCEPT !.alive = FALSE]

\* mutant of Analysisbase_sample: the call number nskip itself is sampled
Analysisbase_sample_SkipInclusive(a) ==
    LET t == a.totstepcnt + 1
        sc == a.stepcnt + 1
        hit == sc = a.steps /\ t >= a.nskip
    IN  [a EXCEPT !.totstepcnt = t,
                  !.stepcnt = IF sc = a.steps THEN 0 ELSE sc,
                  !.cnt = IF hit THEN a.cnt + 1 ELSE a.cnt,
                  !.runs = IF hit THEN a.runs + 1 ELSE a.runs,
                  !.insample = IF hit THEN a.insample + 1 ELSE a.insample,
                  !.invoked = hit,
                  !.calls = a.calls + 1,
                  !.last = "sample"]

\* Analysisbase::sample
Analysisbase_sample(a) ==
    LET t == a.totstepcnt + 1
        sc == a.stepcnt + 1
        hit == sc = a.steps /\ t > a.nskip
    IN  [a EXCEPT !.totstepcnt = t,
                  !.stepcnt = IF sc = a.steps THEN 0 ELSE sc,
                  !.cnt = IF hit THEN a.cnt + 1 ELSE a.cnt,
                  !.runs = IF hit THEN a.runs + 1 ELSE a.runs,
                  !.insample = IF hit THEN a.insample + 1 ELSE a.insample,
                  !.invoked = hit,
                  !.calls = a.calls + 1,
                  !.last = "sample"]

\* mutant of Analysis_destroy: the state is written on every destruction
Analysis_destroy_Always(a) ==
    [a EXCEPT !.runs = IF a.kind = "savestate" THEN a.runs + 1 ELSE a.runs,
              !.alive = FALSE, !.last = "destroy"]

\* end of the simulation: CombinedAnalysis::~CombinedAnalysis calls to_disk()
\* (Analysisbase::_to_disk does nothing), then the analysis is destroyed;
\* SaveState::~SaveState calls _sample() if steps == -1
Analysis_destroy(a) ==
    [a EXCEPT !.runs = IF a.kind = "savestate" /\ a.steps = -1 THEN a.runs + 1 ELSE a.runs,
              !.alive = FALSE, !.last = "destroy"]

(* ---------------- VirtualVolume ----------------------------------------- *)
\* Space::scaleVolume(Vnew) as seen through getVolume(): the geometry has
\* volume Vnew afterwards (positions are scaled along)
scaleVolume(V, Vnew) == Vnew

\* a VirtualVolume analysis on a Space of volume V: the perturbation dV, the
\* sample counter of Analysisbase and the number of values added to duexp
NewVirtualVolume(V, dV) ==
    [V |-> V, dV |-> dV, cnt |-> 0, duexp |-> 0, path |-> "none"]

\* mutant of VirtualVolume_sample: the volume is not scaled back
VirtualVolume_sample_NoRestore(v, Uold, Unew) ==
    IF v.dV # 0
    THEN [v EXCEPT !.V = scaleVolume(v.V, v.V + v.dV), !.duexp = @ + 1,
                   !.path = "counted"]
    ELSE [v EXCEPT !.path = "skipped"]

\* VirtualVolume::_sample; Uold and Unew are the energies before and after
\* the volume is scaled, exp(-du) overflows from -du = max_exp_argument on
VirtualVolume_sample(v, Uold, Unew) ==
    IF v.dV # 0
    THEN LET Vold == v.V
             up == scaleVolume(Vold, Vold + v.dV)
             back == scaleVolume(up, Vold)
             du == Unew - Uold
         IN  IF -du < max_exp_argument
             THEN [v EXCEPT !.V = back, !.duexp = @ + 1, !.path = "counted"]
             ELSE [v EXCEPT !.V = back, !.cnt = @ - 1, !.path = "discarded"]
    ELSE [v EXCEPT !.path = "skipped"]

(* ---------------- QRtraj ------------------------------------------------ *)
\* atom table: charge and sigma (twice the radius) of every atom type
atoms ==
    [Na |-> [charge |-> 1,  sigma |-> 4],
     Cl |-> [charge |-> -1, sigma |-> 6],
     HA |-> [charge |-> 0,  sigma |-> 2],
     A  |-> [charge |-> -1, sigma |-> 2],
     B  |-> [charge |-> 1,  sigma |-> 8],
     X  |-> [charge |-> 0,  sigma |-> 10]]

\* mutant of QRgroup: only the active particles are written
QRgroup_ActiveOnly(spc, g) ==
    [i \in 1..g.size |->
        <<atoms[spc.p[g.begin + i].id].charge, atoms[spc.p[g.begin + i].id].sigma \div 2>>]

\* the pairs QRtraj writes for group g: one per slot from begin() to
\* trueend(), charge and sigma * 0.5 up to end(), "0 0" from there on
QRgroup(spc, g) ==
    [i \in 1..g.capacity |->
        IF i <= g.size
        THEN <<atoms[spc.p[g.begin + i].id].charge, atoms[spc.p[g.begin + i].id].sigma \div 2>>
        ELSE <<0, 0>>]

\* QRtraj::write_to_file: one line with the pairs of all groups in order
RECURSIVE QRframe(_, _)
QRframe(spc, k) ==
    IF k > Len(spc.groups) THEN << >>
    ELSE QRgroup(spc, spc.groups[k]) \o QRframe(spc, k + 1)

(* ---------------- Particle <-> json ------------------------------------- *)
\* the properties a particle shape can carry
ShapeProps == {"Dipole", "Polarizable", "Quadrupole", "Cigar"}

\* a shape with the properties props, every field at the value a freshly
\* allocated shape has; props = {} stands for shape == nullptr
NewShape(props) ==
    [props |-> props, mu |-> 0, mulen |-> 0, alpha |-> 0, mui |-> 0, muilen |-> 0,
     Q |-> 0, scdir |-> 0, sclen |-> 0]

\* json::value(key, default)
JsonValue(j, key, default) == IF key \in DOMAIN j THEN j[key] ELSE default

\* the keys written by the to_json of every property
JsonKeys(prop) ==
    IF prop = "Dipole" THEN {"mu", "mulen"}
    ELSE IF prop = "Polarizable" THEN {"alpha", "mui", "muilen"}
    ELSE IF prop = "Quadrupole" THEN {"Q"}
    ELSE {"scdir", "sclen"}

\* to_json(json&, const Particle&): the to_json of every property of the
\* shape (each writes its fields under its own keys), then id, pos and q
Particle_to_json(p) ==
    [k \in UNION {JsonKeys(prop) : prop \in p.shape.props} \cup {"id", "pos", "q"} |->
        IF k = "id" THEN p.id
        ELSE IF k = "pos" THEN p.pos
        ELSE IF k = "q" THEN p.charge
        ELSE p.shape[k]]

\* Dipole::from_json, Polarizable::from_json, Quadrupole::from_json and
\* Cigar::from_json on the properties of shape sh; Point(1, 0, 0) is written 1
Shape_from_json(j, sh) ==
    [sh EXCEPT
       !.mu = IF "Dipole" \in sh.props THEN JsonValue(j, "mu", 1) ELSE @,
       !.mulen = IF "Dipole" \in sh.props THEN JsonValue(j, "mulen", @) ELSE @,
       !.alpha = IF "Polarizable" \in sh.props THEN JsonValue(j, "alpha", @) ELSE @,
       !.mui = IF "Polarizable" \in sh.props THEN JsonValue(j, "mui", 1) ELSE @,
       !.muilen = IF "Polarizable" \in sh.props THEN JsonValue(j, "mulen", @) ELSE @,
       !.Q = IF "Quadrupole" \in sh.props THEN JsonValue(j, "Q", @) ELSE @,
       !.scdir = IF "Cigar" \in sh.props THEN JsonValue(j, "scdir", @) ELSE @,
       !.sclen = IF "Cigar" \in sh.props THEN JsonValue(j, "sclen", @) ELSE @]

\* from_json(const json&, Particle&) into particle p
Particle_from_json(j, p) ==
    [id |-> JsonValue(j, "id", -1),
     pos |-> JsonValue(j, "pos", 0),
     charge |-> JsonValue(j, "q", 0),
     shape |-> IF p.shape.props # {} THEN Shape_from_json(j, p.shape) ELSE p.shape]

\* the particle a document is read into: its shape is allocated with the
\* properties props and holds no data yet
NewParticle(props) == [id |-> -1, pos |-> 0, charge |-> 0, shape |-> NewShape(props)]

\* the particles explored: no shape, one property or all four; the fields of
\* the properties present are drawn from 1..MaxField, the others are unset
Particles ==
    {[id |-> id, pos |-> 1, charge |-> q,
      shape |-> [props |-> props,
                 mu     |-> IF "Dipole" \in props THEN d[1] ELSE 0,
                 mulen  |-> IF "Dipole" \in props THEN d[2] ELSE 0,
                 alpha  |-> IF "Polarizable" \in props THEN a[1] ELSE 0,
                 mui    |-> IF "Polarizable" \in props THEN a[2] ELSE 0,
                 muilen |-> IF "Polarizable" \in props THEN a[3] ELSE 0,
                 Q      |-> IF "Quadrupole" \in props THEN Q ELSE 0,
                 scdir  |-> IF "Cigar" \in props THEN c[1] ELSE 0,
                 sclen  |-> IF "Cigar" \in props THEN c[2] ELSE 0]] :
        id \in {0, 1}, q \in {-1, 1},
        props \in {{}, {"Dipole"}, {"Polarizable"}, {"Quadrupole"}, {"Cigar"}, ShapeProps},
        d \in (1..MaxField) \X (1..MaxField),
        a \in (1..MaxField) \X (1..MaxField) \X (1..MaxField),
        Q \in 1..MaxField,
        c \in (1..MaxField) \X (1..MaxField)}

(* ---------------- FunctorPotential -------------------------------------- *)
\* the atom types of the pair potential and the pair keys a configuration
\* may hold, in the order the json object iterates them (sorted by key)
FunctorAtoms == {"Cl", "Na", "X"}
FunctorKeys == << <<"Cl", "Na">>, <<"Na", "Cl">>, <<"Na", "X">>, <<"X", "X">> >>

\* the lists of potentials a configuration entry may hold
FunctorLists ==
    {<<"coulomb">>, <<"coulomb", "wca">>, <<"hardsphere">>, <<"wca", "hardsphere">>}

\* HardSphere::HardSphere: d2 holds ((sigma_i + sigma_j) / 2)^2
HardSphere_d2(a, b) ==
    ((atoms[a].sigma + atoms[b].sigma) \div 2) * ((atoms[a].sigma + atoms[b].sigma) \div 2)

\* an energy: infinite or the sum of the listed terms; the value of a
\* potential other than hardsphere is kept as the term <<name, a, b, r2>>
ZeroEnergy == [inf |-> FALSE, terms |-> << >>]

\* u(a, b, r) + _u(a, b, r)
AddEnergy(u, v) == [inf |-> u.inf \/ v.inf, terms |-> u.terms \o v.terms]

\* the energy of one potential; HardSphere::operator() is pc::infty below
\* contact and 0 otherwise
PotentialEnergy(name, a, b, r2) ==
    IF name = "hardsphere"
    THEN [inf |-> r2 < HardSphere_d2(a, b), terms |-> << >>]
    ELSE [inf |-> FALSE, terms |-> << <<name, a, b, r2>> >>]

\* FunctorPotential::combineFunc(j) applied to (a, b, r): starting from the
\* zero function, every potential of the array is added in order
RECURSIVE combineFunc(_, _, _, _)
combineFunc(j, a, b, r2) ==
    IF j = << >> THEN ZeroEnergy
    ELSE AddEnergy(combineFunc(SubSeq(j, 1, Len(j) - 1), a, b, r2),
                   PotentialEnergy(j[Len(j)], a, b, r2))

\* mutant of PairMatrix_set: only the element (i, j) is set
PairMatrix_set_OneWay(m, i, j, val) == [m EXCEPT ![<<i, j>>] = val]

\* PairMatrix::set(i, j, val) of the symmetric matrix umatrix
PairMatrix_set(m, i, j, val) == [m EXCEPT ![<<i, j>>] = val, ![<<j, i>>] = val]

\* FunctorPotential::from_json, the loop over the entries of j from entry k
\* on: an entry whose key is a pair of atom names sets the matrix element
RECURSIVE FunctorEntries(_, _, _)
FunctorEntries(m, j, k) ==
    IF k > Len(FunctorKeys) THEN m
    ELSE FunctorEntries(IF k \in DOMAIN j.pairs
                        THEN PairMatrix_set(m, FunctorKeys[k][1], FunctorKeys[k][2],
                                            j.pairs[k])
                        ELSE m,
                        j, k + 1)

\* FunctorPotential::from_json: umatrix is filled with the default, then the
\* pair entries are set; an element holds the array its function was built from
FunctorPotential_from_json(j) ==
    FunctorEntries([pair \in FunctorAtoms \X FunctorAtoms |-> j.default], j, 1)

\* FunctorPotential::operator()
FunctorPotential_energy(umatrix, a, b, r2) == combineFunc(umatrix[<<a, b>>], a, b, r2)

\* the configurations explored: a default and up to two pair entries
FunctorConfigs ==
    {[default |-> d, pairs |-> ps] :
        d \in FunctorLists,
        ps \in UNION {[S -> FunctorLists] :
                        S \in {T \in SUBSET (1..Len(FunctorKeys)) : Cardinality(T) <= 2}}}

(* ---------------- CombinedAnalysis --------------------------------------- *)
\* the keys of the analyses CombinedAnalysis knows (three of them), and a
\* key it does not know
KnownAnalyses == {"sanity", "savestate", "systemenergy"}
AnalysisKeys == KnownAnalyses \cup {"bogus"}

\* what the value of a member can be: an object the constructor of the
\* analysis accepts, an object it throws on, or no object (null, a number)
MemberValues == {"valid", "invalid", "notobject"}

\* the body of the loop over the members of one entry, for member mem: the
\* list after it and whether an exception left the constructor
CombinedMember(b, mem) ==
    IF b.error \/ mem.value = "notobject" THEN b
    ELSE IF mem.key \in KnownAnalyses /\ mem.value = "valid"
    THEN [b EXCEPT !.vec = Append(@, mem.key)]
    ELSE [b EXCEPT !.error = TRUE]

\* the loop over the members of entry m
RECURSIVE CombinedEntry(_, _)
CombinedEntry(b, m) ==
    IF m = << >> THEN b
    ELSE CombinedEntry(CombinedMember(b, Head(m)), Tail(m))

\* the loop over the entries of the array j
RECURSIVE CombinedEntries(_, _)
CombinedEntries(b, j) ==
    IF j = << >> THEN b
    ELSE CombinedEntries(CombinedEntry(b, Head(j)), Tail(j))

\* mutant of CombinedAnalysis: an unknown key is skipped
CombinedAnalysis_SkipUnknown(j) ==
    CombinedEntries([vec |-> << >>, error |-> FALSE],
                    SelectSeq(j, LAMBDA m : m[1].key \in KnownAnalyses))

\* CombinedAnalysis::CombinedAnalysis for the array j
CombinedAnalysis(j) == CombinedEntries([vec |-> << >>, error |-> FALSE], j)

\* the analysis sections explored: up to MaxEntries entries of one member
AnalysisSections ==
    UNION {[1..n -> {<<[key |-> k, value |-> v]>> : k \in AnalysisKeys, v \in MemberValues}] :
             n \in 0..MaxEntries}

(* ---------------- objects exercised on their own ------------------------ *)
\* no such object: the simulation itself is explored
NoProbe == [fn |-> "none", obj |-> << >>, pre |-> << >>, n |-> 0]

\* the objects explored by SpecP, each in the state its constructor leaves
Probes ==
    {[fn |-> "virtualvolume", obj |-> NewVirtualVolume(V, dV), pre |-> << >>, n |-> 0] :
        V \in 2..MaxVolume, dV \in {-1, 0, 1}}
    \cup
    {[fn |-> "widom", obj |-> [molid |-> molid, pin |-> rins(molid), touched |-> {},
                               outcome |-> "none"],
      pre |-> << >>, n |-> 0] : molid \in DOMAIN molecules}
    \cup
    {[fn |-> "particle", obj |-> p, pre |-> << >>, n |-> 0] :
        p \in Particles}
    \cup
    {[fn |-> "functor",
      obj |-> [j |-> j, umatrix |-> FunctorPotential_from_json(j),
               a |-> "none", b |-> "none", r2 |-> 0, u |-> ZeroEnergy],
      pre |-> << >>, n |-> 0] : j \in FunctorConfigs}
    \cup
    {[fn |-> "analysis", obj |-> [j |-> j, vec |-> << >>, error |-> FALSE],
      pre |-> << >>, n |-> 0] : j \in AnalysisSections}

\* the step number SystemEnergy::_sample and FileReactionCoordinate::_sample
\* write at the start of their output line: cnt * steps
StepWritten(a) == a.cnt * a.steps

(* ---------------- state ------------------------------------------------ *)
VARIABLES
    state1,         \* MCSimulation::state1.spc, the accepted Space
    state2,         \* MCSimulation::state2.spc, the trial Space
    N_reservoir,    \* ReactionData::N_reservoir of every reaction
    reactionlist,   \* the reactions of the input file (indices into reactions)
    change,         \* the Change filled by the last move
    trialprocess,   \* SpeciationMove::trialprocess (0: none sampled yet)
    forward,        \* SpeciationMove::forward
    lnK,            \* SpeciationMove::lnK
    bondenergy,     \* SpeciationMove::bondenergy
    pc,             \* driver position: "idle", "moved", "decided", "sampled", "fatal"
    nsteps,         \* MC steps completed
    widom,          \* WidomInsertion: ghost group index, ninsert, samples
    ana,            \* an analysis of the input: configuration and counters
    probe,          \* an object exercised on its own (see NoProbe)
    hist            \* history of the last step (for stating properties only)

vars == <<state1, state2, N_reservoir, reactionlist, change, trialprocess, forward, lnK,
          bondenergy, pc, nsteps, widom, ana, probe, hist>>

NoHist == [old1 |-> << >>, old2 |-> << >>, oldres |-> << >>, picked |-> << >>,
           exit |-> "none", moved2 |-> << >>, moved1 |-> << >>, last |-> "none"]

\* the simulation after construction, whatever object is exercised with it
InitSimulation ==
    /\ \E naSize \in {CapNa - 2, CapNa}, clSize \in {1} :
          /\ state1 = InitSpace(naSize, clSize)
          /\ state2 = InitSpace(naSize, clSize)
    /\ N_reservoir \in [Reactions -> UNION {reactions[r].N : r \in Reactions}]
    /\ reactionlist \in {GoodReactions, Reactions}
    /\ \A r \in Reactions :
          N_reservoir[r] \in (IF r \in reactionlist THEN reactions[r].N ELSE {0})
    /\ change = EmptyChange
    /\ trialprocess = 0
    /\ forward = FALSE
    /\ lnK = 0
    /\ bondenergy = 0
    /\ pc = "idle"
    /\ nsteps = 0
    /\ \E n \in {0, 1, 2} :
          widom = [index |-> WidomGhost(state1, "M"), ninsert |-> n, cnt |-> 0,
                   emptyok |-> TRUE]
    /\ ana \in {NoAnalysis} \cup
               {NewAnalysis(kind, nstep, nskip) :
                   kind \in AnalysisKinds, nstep \in (-1)..MaxNstep, nskip \in 0..MaxNskip}
    /\ hist = NoHist

Init == InitSimulation /\ probe = NoProbe

(* ---------------- operations ------------------------------------------- *)
\* Movebase::move: the speciation move proposes on the trial Space
Move ==
    /\ pc = "idle"
    /\ nsteps < MaxSteps
    /\ \E r \in reactionlist, fwd \in BOOLEAN :
       \E picks \in PickStreams(DrawSizes(state2, state1, N_reservoir, r, fwd)),
          places \in PlaceStreams(DrawPlaces(state2, state1, N_reservoir, r, fwd)) :
       \E st \in {_move(state2, state1, N_reservoir, bondenergy, r, fwd, picks, places)} :
              /\ state2' = st.spc
              /\ state1' = st.other
              /\ change' = [dN |-> st.dN, groups |-> st.groups]
              /\ trialprocess' = r
              /\ forward' = fwd
              /\ lnK' = reactions[r].lnK
              /\ bondenergy' = st.bondenergy
              /\ pc' = IF st.exit = "throw" THEN "fatal" ELSE "moved"
              /\ hist' = [old1 |-> state1, old2 |-> state2, oldres |-> N_reservoir,
                          picked |-> st.picked, exit |-> st.exit,
                          moved2 |-> st.spc, moved1 |-> st.other, last |-> "move"]
    /\ UNCHANGED <<probe, N_reservoir, reactionlist, nsteps, widom, ana>>

\* MCSimulation::move, Metropolis accepts: accepted.sync(trial), then accept()
Accept ==
    /\ pc = "moved"
    /\ ~ChangeIsEmpty(change)
    /\ state1' = sync(state1, state2, change)
    /\ N_reservoir' = _accept(N_reservoir, trialprocess, forward)
    /\ pc' = IF AcceptThrows(N_reservoir', trialprocess) THEN "fatal" ELSE "decided"
    /\ nsteps' = nsteps + 1
    /\ hist' = [hist EXCEPT !.last = "accept"]
    /\ UNCHANGED <<probe, state2, reactionlist, change, trialprocess, forward, lnK,
                   bondenergy, widom, ana>>

\* MCSimulation::move, Metropolis rejects (an empty Change counts as a
\* rejection): trial.sync(accepted), then reject()
Reject ==
    /\ pc = "moved"
    /\ state2' = sync(state2, state1, change)
    /\ N_reservoir' = _reject(N_reservoir, trialprocess, forward)
    /\ pc' = "decided"
    /\ nsteps' = nsteps + 1
    /\ hist' = [hist EXCEPT !.last = "reject"]
    /\ UNCHANGED <<probe, state1, reactionlist, change, trialprocess, forward, lnK,
                   bondenergy, widom, ana>>

\* MCSimulation::move or the sampling event returns to the main loop; the
\* history of the step is dropped
Return ==
    /\ pc \in {"decided", "sampled"}
    /\ pc' = "idle"
    /\ hist' = NoHist
    /\ UNCHANGED <<probe, state1, state2, N_reservoir, reactionlist, change, trialprocess,
                   forward, lnK, bondenergy, nsteps, widom, ana>>

\* a sampling event of the Widom analysis: the main loop samples after an
\* MC step, on the accepted Space (MCSimulation::space() is state1.spc); a
\* build with assertions aborts on assert(g.empty()), one with NDEBUG goes on
WidomSample ==
    /\ pc = "idle"
    /\ widom.cnt < nsteps
    /\ \E ndebug \in BOOLEAN,
          draws \in [1..widom.ninsert -> (1..NRandPos) \X (1..NRandPos)] :
          IF state1.groups[widom.index + 1].size = 0 \/ ndebug
          THEN /\ state1' = Widom_sample(state1, widom.index, draws)
               /\ pc' = "sampled"
          ELSE /\ state1' = state1
               /\ pc' = "fatal"
    /\ widom' = [widom EXCEPT !.cnt = nsteps,
                              !.emptyok = widom.emptyok /\
                                          state1.groups[widom.index + 1].size = 0]
    /\ hist' = [NoHist EXCEPT !.last = "widom", !.old1 = state1]
    /\ UNCHANGED <<probe, state2, N_reservoir, reactionlist, change, trialprocess,
                   forward, lnK, bondenergy, nsteps, ana>>

\* the main loop calls sample() of the analysis
AnalysisSample ==
    /\ ana.alive
    /\ ana.calls < MaxCalls
    /\ ana' = Analysisbase_sample(ana)
    /\ UNCHANGED <<probe, state1, state2, N_reservoir, reactionlist, change, trialprocess,
                   forward, lnK, bondenergy, pc, nsteps, widom, hist>>

\* the simulation ends and the analysis is destroyed
AnalysisDestroy ==
    /\ ana.alive
    /\ ana' = Analysis_destroy(ana)
    /\ UNCHANGED <<probe, state1, state2, N_reservoir, reactionlist, change, trialprocess,
                   forward, lnK, bondenergy, pc, nsteps, widom, hist>>

\* one sampling event of the virtual volume analysis: Analysisbase::sample
\* counts it, VirtualVolume::_sample perturbs the volume of the Space
VirtualVolumeSample ==
    /\ probe.fn = "virtualvolume"
    /\ probe.n < MaxCalls
    /\ \E Uold \in (-MaxEnergy)..MaxEnergy, Unew \in (-MaxEnergy)..MaxEnergy :
          probe' = [probe EXCEPT
                      !.obj = VirtualVolume_sample([probe.obj EXCEPT !.cnt = @ + 1],
                                                   Uold, Unew),
                      !.pre = probe.obj,
                      !.n = @ + 1]
    /\ UNCHANGED <<state1, state2, N_reservoir, reactionlist, change, trialprocess,
                   forward, lnK, bondenergy, pc, nsteps, widom, ana, hist>>

\* one insertion of the Widom analysis seen from the inserted set pin: with
\* fewer than two particles pin[1] lies outside the vector (undefined
\* behaviour: the write may go unnoticed, corrupt the heap or crash)
WidomInsertPin ==
    /\ probe.fn = "widom"
    /\ probe.n < MaxCalls
    /\ probe.obj.outcome # "crash"
    /\ \E a \in 1..NRandPos, b \in 1..NRandPos,
          outcome \in (IF \A i \in WidomTouched : i < Len(probe.obj.pin)
                       THEN {"ok"} ELSE {"unnoticed", "corrupt", "crash"}) :
          probe' = [probe EXCEPT
                      !.obj = [molid |-> probe.obj.molid,
                               pin |-> WidomRandomPos(rins(probe.obj.molid), a, b),
                               touched |-> WidomTouched,
                               outcome |-> outcome],
                      !.pre = probe.obj,
                      !.n = @ + 1]
    /\ UNCHANGED <<state1, state2, N_reservoir, reactionlist, change, trialprocess,
                   forward, lnK, bondenergy, pc, nsteps, widom, ana, hist>>

\* a sampling event of the charge-radius trajectory: QRtraj::_sample writes
\* one frame for the accepted Space; probe.obj is the last line of the file
QRtrajSample ==
    /\ pc = "idle"
    /\ probe.fn = "qrtraj"
    /\ probe.n < nsteps
    /\ probe' = [probe EXCEPT !.obj = QRframe(state1, 1), !.pre = probe.obj, !.n = nsteps]
    /\ pc' = "sampled"
    /\ hist' = [NoHist EXCEPT !.last = "qrtraj"]
    /\ UNCHANGED <<state1, state2, N_reservoir, reactionlist, change, trialprocess,
                   forward, lnK, bondenergy, nsteps, widom, ana>>

\* a particle is written with to_json and the document is read back with
\* from_json into a particle whose shape has the same properties
ParticleRoundTrip ==
    /\ probe.fn = "particle"
    /\ probe.n < 1
    /\ probe' = [probe EXCEPT
                   !.obj = Particle_from_json(Particle_to_json(probe.obj),
                                              NewParticle(probe.obj.shape.props)),
                   !.pre = probe.obj,
                   !.n = @ + 1]
    /\ UNCHANGED <<state1, state2, N_reservoir, reactionlist, change, trialprocess,
                   forward, lnK, bondenergy, pc, nsteps, widom, ana, hist>>

\* the pair potential built from a configuration is evaluated for two
\* particles of atom types a and b at a squared distance around contact
FunctorEnergy ==
    /\ probe.fn = "functor"
    /\ probe.n < 1
    /\ \E a \in FunctorAtoms, b \in FunctorAtoms, off \in {-1, 0, 1} :
          LET r2 == HardSphere_d2(a, b) + off
          IN  probe' = [probe EXCEPT
                          !.obj = [probe.obj EXCEPT
                                     !.a = a, !.b = b, !.r2 = r2,
                                     !.u = FunctorPotential_energy(probe.obj.umatrix,
                                                                   a, b, r2)],
                          !.pre = probe.obj,
                          !.n = @ + 1]
    /\ UNCHANGED <<state1, state2, N_reservoir, reactionlist, change, trialprocess,
                   forward, lnK, bondenergy, pc, nsteps, widom, ana, hist>>

\* the analysis list is built from the analysis section of the input
BuildAnalysis ==
    /\ probe.fn = "analysis"
    /\ probe.n < 1
    /\ probe' = [probe EXCEPT
                   !.obj = [j |-> probe.obj.j,
                            vec |-> CombinedAnalysis(probe.obj.j).vec,
                            error |-> CombinedAnalysis(probe.obj.j).error],
                   !.pre = probe.obj,
                   !.n = @ + 1]
    /\ UNCHANGED <<state1, state2, N_reservoir, reactionlist, change, trialprocess,
                   forward, lnK, bondenergy, pc, nsteps, widom, ana, hist>>

Next == Move \/ Accept \/ Reject \/ Return

\* no analysis configured: the Widom analysis never inserts
InitNoAnalysis ==
    Init /\ widom.ninsert = 0 /\ reactionlist = GoodReactions /\ ana = NoAnalysis

\* the speciation move alone
Spec == InitNoAnalysis /\ [][Next]_vars

NextA == Move \/ Accept \/ Reject \/ Return \/ WidomSample

\* a well-defined input with the Widom analysis
InitAnalysis == Init /\ reactionlist = GoodReactions /\ ana = NoAnalysis

\* the speciation move with the Widom analysis sampling between steps
SpecA == InitAnalysis /\ [][NextA]_vars

\* an input whose reaction list names an atomic molecule without a group
InitMisconfigured ==
    Init /\ widom.ninsert = 0 /\ reactionlist = Reactions /\ ana = NoAnalysis

\* the speciation move on the misconfigured input
SpecM == InitMisconfigured /\ [][Next]_vars

\* an input with one sampled analysis (any kind, nstep and nskip)
InitSampling ==
    Init /\ widom.ninsert = 0 /\ reactionlist = GoodReactions /\ ana # NoAnalysis

NextS == AnalysisSample \/ AnalysisDestroy

\* the life of one analysis: calls of sample(), then destruction
SpecS == InitSampling /\ [][NextS]_vars

\* the objects of Probes, each in a simulation that is otherwise at rest
InitProbe ==
    /\ state1 = InitSpace(CapNa, 1)
    /\ state2 = InitSpace(CapNa, 1)
    /\ N_reservoir = [r \in Reactions |-> 0]
    /\ reactionlist = GoodReactions
    /\ change = EmptyChange
    /\ trialprocess = 0
    /\ forward = FALSE
    /\ lnK = 0
    /\ bondenergy = 0
    /\ pc = "idle"
    /\ nsteps = 0
    /\ widom = [index |-> WidomGhost(state1, "M"), ninsert |-> 0, cnt |-> 0,
                emptyok |-> TRUE]
    /\ ana = NoAnalysis
    /\ probe \in Probes
    /\ hist = NoHist

NextP == VirtualVolumeSample \/ WidomInsertPin \/ ParticleRoundTrip \/ FunctorEnergy
         \/ BuildAnalysis

\* analyses and functions that do not depend on the speciation move
SpecP == InitProbe /\ [][NextP]_vars

\* a well-defined input with the charge-radius trajectory and an empty file;
\* two Na atoms are active and the reservoir of the first reaction holds one
InitQRtraj ==
    /\ InitSimulation
    /\ widom.ninsert = 0 /\ reactionlist = GoodReactions /\ ana = NoAnalysis
    /\ state1.groups[1].size = CapNa - 2 /\ N_reservoir[1] = 1
    /\ probe = [fn |-> "qrtraj", obj |-> << >>, pre |-> << >>, n |-> 0]

NextQ == Move \/ Accept \/ Reject \/ Return \/ QRtrajSample

\* the speciation move with the charge-radius trajectory sampling between steps
SpecQ == InitQRtraj /\ [][NextQ]_vars

(* ---------------- properties ------------------------------------------- *)
Range(f) == {f[i] : i \in DOMAIN f}

\* the 1-based slots a Change names: all slots of a group entered with the
\* all flag, the listed atoms otherwise
Covered(chg, spc) ==
    UNION {IF m.all
           THEN {Slot(spc.groups[m.index + 1], i) : i \in 0..(spc.groups[m.index + 1].capacity - 1)}
           ELSE {Slot(spc.groups[m.index + 1], m.atoms[i]) : i \in 1..Len(m.atoms)} :
           m \in Range(chg.groups)}

\* the driver has finished a step with a decision
StepDone == pc = "decided" /\ hist.last \in {"accept", "reject"}

\* the move has run to its end and the driver has not decided yet
MoveDone == pc = "moved" /\ hist.exit = "done"

\* multiplicity of molecule molid in a multiset
RECURSIVE Mult(_, _)
Mult(ms, molid) ==
    IF ms = << >> THEN 0
    ELSE (IF ms[1][1] = molid THEN ms[1][2] ELSE 0) + Mult(Tail(ms), molid)

\* the 1-based indices of the groups of the species of a multiset
GroupsOf(spc, ms) == {k \in 1..Len(spc.groups) : Mult(ms, spc.groups[k].id) > 0}

GroupSlots(g) == {Slot(g, i) : i \in 0..(g.capacity - 1)}

SameSizes(a, b) ==
    /\ Len(a.groups) = Len(b.groups)
    /\ \A k \in 1..Len(a.groups) : a.groups[k].size = b.groups[k].size

\* number of active atoms (atomic molecule) or active groups (molecular one)
ActiveCount(spc, molid) ==
    IF findMolecules(spc, molid, "ALL") = << >> THEN 0
    ELSE IF molecules[molid].atomic
    THEN spc.groups[findMolecules(spc, molid, "ALL")[1]].size
    ELSE Len(findMolecules(spc, molid, "ACTIVE"))

\* a picked atom that was not already the last or the last but one
Swapped(pk) == pk.index < pk.size - 2

\* C1: after every step with the speciation move (accept followed by
\* accepted.sync(trial, change), or reject followed by trial.sync(accepted,
\* change)) the accepted and the trial Space hold the same particle in every
\* slot that the step's Change does not list.
C1_SameOutsideChange ==
    StepDone =>
        \A s \in 1..Len(state1.p) :
            s \notin Covered(change, state1) => state1.p[s] = state2.p[s]

\* C1 witness: an accepted step whose deletion swap moved a particle in a
\* slot of the accepted Space that the Change does not list
C1_Witness ==
    /\ StepDone
    /\ hist.last = "accept"
    /\ \E s \in 1..Len(state1.p) :
          s \notin Covered(change, state1) /\ state1.p[s] # hist.old1.p[s]

\* C2: after a move that is immediately rejected, trial.sync(accepted,
\* change) leaves the trial Space identical to the accepted Space in every
\* particle slot and in every group's active size.
C2_RejectRestoresTrial ==
    (pc = "decided" /\ hist.last = "reject" /\ hist.exit = "done") =>
        /\ state2.p = state1.p
        /\ SameSizes(state2, state1)

\* C2 witness: a rejected move that deleted two atoms with a swap and
\* activated molecular groups
C2_Witness ==
    /\ pc = "decided" /\ hist.last = "reject" /\ hist.exit = "done"
    /\ trialprocess = 2 /\ ~forward
    /\ \E i \in 1..Len(hist.picked) : Swapped(hist.picked[i])
    /\ hist.moved2.p # hist.old2.p

\* C3 (as claimed): a rejected move, or one that returned an empty Change,
\* leaves every particle slot and every group size of the accepted Space as
\* it was before the move was proposed.
C3_AcceptedUntouched ==
    (pc = "decided" /\ hist.last = "reject") =>
        /\ state1.p = hist.old1.p
        /\ SameSizes(state1, hist.old1)

\* particles x occur equally often in the slots S of p and of q
SameBag(p, q, S) ==
    \A s \in S : Cardinality({t \in S : p[t] = p[s]}) = Cardinality({t \in S : q[t] = p[s]})

\* C3 (amended): a rejected move, or one that returned an empty Change,
\* leaves every group size of the accepted Space as it was and every particle
\* slot as it was, except that the active slots of an atomic group of the
\* remove-set may have been permuted among themselves; after an empty Change
\* nothing has changed.
C3_AcceptedPermutedOnly ==
    (pc = "decided" /\ hist.last = "reject") =>
        /\ SameSizes(state1, hist.old1)
        /\ state1.groups = hist.old1.groups
        /\ hist.exit \in EarlyExits => state1.p = hist.old1.p
        /\ \A k \in 1..Len(state1.groups) :
              LET g == state1.groups[k]
                  active == {Slot(g, i) : i \in 0..(g.size - 1)}
              IN  IF g.atomic /\ k \in GroupsOf(state1, Molecules2Add(trialprocess, ~forward))
                  THEN /\ SameBag(state1.p, hist.old1.p, active)
                       /\ \A s \in GroupSlots(g) \ active : state1.p[s] = hist.old1.p[s]
                  ELSE \A s \in GroupSlots(g) : state1.p[s] = hist.old1.p[s]

\* C3 witness: a rejected deletion after which the accepted Space holds its
\* active atoms in another order than before the move
C3_Witness ==
    /\ pc = "decided" /\ hist.last = "reject" /\ hist.exit = "done"
    /\ state1.p # hist.old1.p

\* C4: when _move exits early (reservoir exhausted, too few atoms or groups
\* to remove, no headroom or too few inactive groups to add, no atom to
\* swap) the Change is empty (no group entries, dN not set) and neither the
\* trial nor the peer Space has been modified.
C4_EarlyExitTouchesNothing ==
    (pc = "moved" /\ hist.exit \in EarlyExits) =>
        /\ change.groups = << >>
        /\ ~change.dN
        /\ state2 = hist.old2
        /\ state1 = hist.old1

\* C4 witness: an early exit for lack of headroom in the atomic group of the
\* add-set, after an earlier move was accepted
C4_Witness ==
    /\ pc = "moved" /\ hist.exit = "add-check"
    /\ nsteps > 0
    /\ molecules[Molecules2Add(trialprocess, forward)[1][1]].atomic

\* C5: in every reachable state every atomic group has 0 <= size <= capacity
\* and every molecular group has size 0 or size = capacity, in both Spaces.
C5_SizeBounds ==
    \A spc \in {state1, state2} :
        \A k \in 1..Len(spc.groups) :
            LET g == spc.groups[k]
            IN  IF g.atomic THEN 0 <= g.size /\ g.size <= g.capacity
                ELSE g.size = 0 \/ g.size = g.capacity

\* C5 witness: an insertion of two atoms has filled the atomic group to its
\* capacity and the step was accepted
C5_Witness ==
    /\ StepDone /\ hist.last = "accept"
    /\ trialprocess = 2 /\ forward
    /\ state1.groups[1].size = state1.groups[1].capacity
    /\ hist.old1.groups[1].size < state1.groups[1].size

\* C6: N_reservoir >= 0 in every reachable state, for every canonic reaction.
C6_ReservoirNonNegative ==
    \A r \in Reactions : reactions[r].canonic => N_reservoir[r] >= 0

\* C6 witness: an accepted forward move has used up the canonic reservoir
C6_Witness ==
    /\ StepDone /\ hist.last = "accept"
    /\ reactions[trialprocess].canonic /\ forward
    /\ hist.oldres[trialprocess] = 1
    /\ N_reservoir[trialprocess] = 0

\* C7: the length of the particle array, the number of groups and the
\* capacity (and offset) of every group are what they were after
\* initialization, whatever moves, accepts, rejects and Widom sampling events
\* have happened; only the group sizes change.
C7_LayoutConstant ==
    \A spc \in {state1, state2} :
        /\ Len(spc.p) = NParticles
        /\ Len(spc.groups) = NGroups
        /\ \A k \in 1..Len(spc.groups) :
              /\ spc.groups[k].capacity = GroupCap(k)
              /\ spc.groups[k].begin = GroupBegin(k)
              /\ spc.groups[k].id = GroupMol(k)

\* C7 witness: a Widom sampling event with two insertions after an accepted
\* move that changed group sizes (a second Cl atom is active)
C7_Witness ==
    /\ pc = "sampled" /\ hist.last = "widom"
    /\ widom.ninsert = 2
    /\ nsteps > 0
    /\ ActiveCount(state1, "Cl") = 2

\* C8 (as claimed): in an atomic deletion the particle that is inactive
\* after the iteration (slot size-1 of the size before that iteration) is
\* the particle that was picked.
C8_DeletedIsPicked ==
    MoveDone =>
        \A i \in 1..Len(hist.picked) :
            LET pk == hist.picked[i]
            IN  state2.p[Slot(state2.groups[pk.group], pk.size - 1)] = pk.particle

\* C9: if trial and peer Space are identical before the move, then right
\* after _move has deleted k >= 1 atoms from an atomic group every slot of
\* that group holds the same particle in both Spaces, and outside the groups
\* of the add-set the two Spaces differ only in the active size of the groups
\* atoms were deleted from.
C9_MirroredDeletion ==
    (MoveDone /\ hist.old1 = hist.old2 /\ hist.picked # << >>) =>
        \A k \in 1..Len(state2.groups) :
            k \notin GroupsOf(state2, Molecules2Add(trialprocess, forward)) =>
                /\ \A s \in GroupSlots(state2.groups[k]) : state2.p[s] = state1.p[s]
                /\ [state2.groups[k] EXCEPT !.size = 0] = [state1.groups[k] EXCEPT !.size = 0]
                /\ state2.groups[k].size # state1.groups[k].size =>
                      k \in GroupsOf(state2, Molecules2Add(trialprocess, ~forward))
                /\ (\E i \in 1..Len(hist.picked) : hist.picked[i].group = k) =>
                      state2.groups[k].size = state1.groups[k].size -
                          Mult(Molecules2Add(trialprocess, ~forward), state2.groups[k].id)

\* C9 witness: two atoms deleted from one group, each with a swap
C9_Witness ==
    /\ MoveDone /\ hist.old1 = hist.old2
    /\ Len(hist.picked) = 2
    /\ hist.picked[1].group = hist.picked[2].group
    /\ Swapped(hist.picked[1]) /\ Swapped(hist.picked[2])

\* C10: after a move that passed all feasibility checks, in the trial Space
\* every species of the remove-set has its multiplicity fewer active atoms
\* (atomic) or active groups (molecular), every species of the add-set its
\* multiplicity more, and every group of a species in neither set has the
\* size it had.
C10_CountsChangeByMultiplicity ==
    MoveDone =>
        /\ \A molid \in DOMAIN molecules :
              ActiveCount(state2, molid) - ActiveCount(hist.old2, molid) =
                  Mult(Molecules2Add(trialprocess, forward), molid) -
                  Mult(Molecules2Add(trialprocess, ~forward), molid)
        /\ \A k \in 1..Len(state2.groups) :
              (k \notin GroupsOf(state2, Molecules2Add(trialprocess, forward)) /\
               k \notin GroupsOf(state2, Molecules2Add(trialprocess, ~forward))) =>
                  state2.groups[k].size = hist.old2.groups[k].size

\* C10 witness: two atoms deleted and two molecular groups activated
C10_Witness ==
    /\ MoveDone
    /\ trialprocess = 2 /\ ~forward
    /\ Len(findMolecules(state2, "M", "ACTIVE")) = Len(findMolecules(hist.old2, "M", "ACTIVE")) + 2

\* the two Spaces are identical whenever the driver is between steps
InSyncWhenIdle == pc = "idle" => state1 = state2

\* the slots of spc that lie in the active part of a group
ActiveSlots(spc) ==
    UNION {{Slot(spc.groups[k], i) : i \in 0..(spc.groups[k].size - 1)} :
           k \in 1..Len(spc.groups)}

\* C11: in a swap reaction that passes the checks exactly one atom, active
\* and of the outgoing species before the move, has the id of the incoming
\* species afterwards, in the same slot and with the same position; no other
\* slot and no group size has changed; the Change has an entry for the group
\* containing that atom with dNswap set and the atom's index relative to the
\* group as its only atom index.
C11_SwapReplacesOneId ==
    (MoveDone /\ reactions[trialprocess].swap) =>
        LET m1 == Atoms2Add(trialprocess, ~forward)[1][1]
            m2 == Atoms2Add(trialprocess, forward)[1][1]
            changed == {s \in 1..Len(state2.p) : state2.p[s] # hist.old2.p[s]}
        IN  /\ Cardinality(changed) = 1
            /\ \A s \in changed :
                  /\ s \in ActiveSlots(hist.old2)
                  /\ hist.old2.p[s].id = m1
                  /\ state2.p[s].id = m2
                  /\ state2.p[s].pos = hist.old2.p[s].pos
                  /\ \E i \in 1..Len(change.groups) :
                        LET d == change.groups[i]
                            g == state2.groups[d.index + 1]
                        IN  /\ d.dNswap
                            /\ g.begin < s /\ s <= g.begin + g.capacity
                            /\ d.atoms = <<s - g.begin - 1>>
            /\ state2.groups = hist.old2.groups
            /\ state1 = hist.old1

\* C11 witness: a backward swap (A becomes HA again) of the first atom of a
\* molecular group that does not start at slot 0 of the particle vector
C11_Witness ==
    /\ MoveDone /\ reactions[trialprocess].swap /\ ~forward
    /\ Len(change.groups) = 1
    /\ change.groups[1].dNswap
    /\ change.groups[1].atoms = <<0>>
    /\ state2.groups[change.groups[1].index + 1].begin > 0

\* C12: after every move that returns a non-empty Change the per-group
\* entries are ordered by non-decreasing group index and the atom-index list
\* of every entry is ascending.
C12_ChangeSorted ==
    (pc = "moved" /\ ~ChangeIsEmpty(change)) =>
        /\ \A i \in 1..(Len(change.groups) - 1) :
              change.groups[i].index <= change.groups[i + 1].index
        /\ \A i \in 1..Len(change.groups) :
              \A j \in 1..(Len(change.groups[i].atoms) - 1) :
                  change.groups[i].atoms[j] < change.groups[i].atoms[j + 1]

\* C12 witness: two atoms deleted from the atomic group (pushed in
\* descending order) and two molecular groups activated in the same move
C12_Witness ==
    /\ pc = "moved" /\ ~ChangeIsEmpty(change)
    /\ trialprocess = 2 /\ ~forward
    /\ Len(change.groups) = 3
    /\ change.groups[1].dNatomic
    /\ Len(change.groups[1].atoms) = 2
    /\ change.groups[2].all /\ change.groups[3].all

\* the Change entries of the group with 1-based index gi
EntriesOf(chg, gi) == {i \in 1..Len(chg.groups) : chg.groups[i].index = gi - 1}

\* C13: for an atomic deletion of k atoms from a group of active size s the
\* Change entry of the group lists exactly the relative indices s-k..s-1,
\* for an atomic insertion of k atoms exactly s..s+k-1, in ascending order;
\* both entries carry the dNatomic flag.
C13_AtomicIndices ==
    MoveDone =>
        \A gi \in 1..Len(state2.groups) :
            LET s == hist.old2.groups[gi].size
                kdel == Mult(Molecules2Add(trialprocess, ~forward), state2.groups[gi].id)
                kadd == Mult(Molecules2Add(trialprocess, forward), state2.groups[gi].id)
            IN  state2.groups[gi].atomic =>
                  /\ kdel > 0 =>
                        /\ Cardinality(EntriesOf(change, gi)) = 1
                        /\ \A i \in EntriesOf(change, gi) :
                              /\ change.groups[i].dNatomic
                              /\ change.groups[i].atoms = [j \in 1..kdel |-> s - kdel + j - 1]
                  /\ kadd > 0 =>
                        /\ Cardinality(EntriesOf(change, gi)) = 1
                        /\ \A i \in EntriesOf(change, gi) :
                              /\ change.groups[i].dNatomic
                              /\ change.groups[i].atoms = [j \in 1..kadd |-> s + j - 1]

\* C13 witness: two atoms deleted from a group that held four, the first of
\* them picked at the front of the group
C13_Witness ==
    /\ MoveDone /\ trialprocess = 2 /\ ~forward
    /\ hist.old2.groups[1].size = 4
    /\ change.groups[1].atoms = <<2, 3>>
    /\ hist.picked[1].index = 0

\* an insertion of two atoms into a group that held two is reached as well
C13_InsertionReached ==
    /\ MoveDone /\ trialprocess = 2 /\ forward
    /\ hist.old2.groups[1].size = 2
    /\ change.groups[1].atoms = <<2, 3>>

\* sum of the bonded energies, in Space spc, of the groups with indices in S
RECURSIVE SumBondEnergy(_, _)
SumBondEnergy(spc, S) ==
    IF S = {} THEN 0
    ELSE LET k == CHOOSE x \in S : TRUE
         IN  (IF molecules[spc.groups[k].id].bonded THEN BondEnergy(spc, spc.groups[k]) ELSE 0)
             + SumBondEnergy(spc, S \ {k})

\* the molecular groups this move deactivated, and those it activated
Deactivated == {k \in 1..Len(state2.groups) :
                  ~state2.groups[k].atomic /\ hist.old2.groups[k].size > 0 /\
                  state2.groups[k].size = 0}
Activated == {k \in 1..Len(state2.groups) :
                ~state2.groups[k].atomic /\ hist.old2.groups[k].size = 0 /\
                state2.groups[k].size > 0}

\* C14: after a move that passed all checks bias() is -lnK + B (forward) or
\* +lnK + B (backward), with lnK that of the sampled reaction and B the bonded
\* energy of the molecular groups this move deactivated (taken before the
\* move) minus that of the groups it activated (taken after placement);
\* nothing of an earlier move is carried over.
C14_Bias ==
    MoveDone =>
        LET B == SumBondEnergy(hist.old2, Deactivated) - SumBondEnergy(state2, Activated)
        IN  /\ lnK = reactions[trialprocess].lnK
            /\ bias(forward, lnK, bondenergy) =
                  (IF forward THEN -reactions[trialprocess].lnK
                   ELSE reactions[trialprocess].lnK) + B

\* C14 witness: a backward move activates two molecular groups right after
\* the forward move that deactivated two was accepted
C14_Witness ==
    /\ MoveDone /\ nsteps = 1
    /\ trialprocess = 2 /\ ~forward
    /\ Cardinality(Activated) = 2
    /\ bias(forward, lnK, bondenergy) = reactions[2].lnK - 2

\* C15 (as claimed): _accept changes N_reservoir of the sampled reaction by -1
\* (forward) or +1 (backward) and does so only if the reaction is canonic;
\* _reject leaves N_reservoir of every reaction unchanged.
C15_ReservoirOnlyIfCanonic ==
    StepDone =>
        IF hist.last = "accept" /\ reactions[trialprocess].canonic
        THEN N_reservoir = [hist.oldres EXCEPT ![trialprocess] =
                               hist.oldres[trialprocess] + (IF forward THEN -1 ELSE 1)]
        ELSE N_reservoir = hist.oldres

\* what the code does: the update of an accepted move is unconditional
C15_ReservoirUpdatedOnAccept ==
    StepDone =>
        IF hist.last = "accept"
        THEN N_reservoir = [hist.oldres EXCEPT ![trialprocess] =
                               hist.oldres[trialprocess] + (IF forward THEN -1 ELSE 1)]
        ELSE N_reservoir = hist.oldres

\* reaction r names, in its remove-set or add-set, an atomic molecule whose
\* number of groups in Space spc is not one
Misconfigured(spc, r) ==
    \E m \in Range(reactions[r].reag_m) \cup Range(reactions[r].prod_m) :
        molecules[m[1]].atomic /\ Len(findMolecules(spc, m[1], "ALL")) # 1

\* C16 (as claimed): whenever the move samples a reaction in which an atomic
\* molecule of the remove-set or add-set has a number of groups different
\* from one, _move ends with a fatal error, never with a silent empty Change,
\* and no particle slot or group size has been modified at that time.
C16_MisconfiguredIsFatal ==
    (hist.last = "move" /\ Misconfigured(hist.old2, trialprocess)) =>
        /\ hist.exit = "throw"
        /\ pc = "fatal"
        /\ state1 = hist.old1
        /\ state2 = hist.old2

\* what the code does with such a reaction: it never acts on it, and the
\* fatal error is raised unless the reservoir test or the feasibility test of
\* an entry checked earlier returns first
C16_MisconfiguredNeverActs ==
    (hist.last = "move" /\ Misconfigured(hist.old2, trialprocess)) =>
        /\ hist.exit \in {"throw", "reservoir", "delete-check", "add-check"}
        /\ hist.exit = "throw" <=> pc = "fatal"
        /\ ChangeIsEmpty(change)
        /\ state1 = hist.old1
        /\ state2 = hist.old2

\* the fatal error of the misconfigured reaction is reached
C16_ThrowReached ==
    /\ hist.last = "move" /\ pc = "fatal" /\ hist.exit = "throw"
    /\ trialprocess = 4 /\ ~forward

\* C17 (as claimed): for the canonic reaction NaCl = Na + Cl the sum (active
\* Na) + (active Cl) + (NaCl count, the reservoir of the reaction) has the
\* same value after every step with that reaction, accepted or rejected, as
\* before it.
C17_SumNaClNaCl ==
    (StepDone /\ trialprocess = 1) =>
        \A spc \in {state1, state2} :
            ActiveCount(spc, "Na") + ActiveCount(spc, "Cl") + N_reservoir[1] =
            ActiveCount(hist.old1, "Na") + ActiveCount(hist.old1, "Cl") + hist.oldres[1]

\* C17 (amended): for the canonic reaction NaCl = Na + Cl each of the sums
\* (active Na) + (NaCl count) and (active Cl) + (NaCl count) has the same
\* value after every step with that reaction, accepted or rejected, as before
\* it.
C17_NaPlusNaClAndClPlusNaCl ==
    (StepDone /\ trialprocess = 1) =>
        \A spc \in {state1, state2} :
            /\ ActiveCount(spc, "Na") + N_reservoir[1] =
               ActiveCount(hist.old1, "Na") + hist.oldres[1]
            /\ ActiveCount(spc, "Cl") + N_reservoir[1] =
               ActiveCount(hist.old1, "Cl") + hist.oldres[1]

\* C17 witness: an accepted dissociation: one NaCl less, one Na and one Cl
\* more
C17_Witness ==
    /\ StepDone /\ hist.last = "accept"
    /\ trialprocess = 1 /\ forward
    /\ N_reservoir[1] = hist.oldres[1] - 1
    /\ ActiveCount(state1, "Na") = ActiveCount(hist.old1, "Na") + 1
    /\ ActiveCount(state1, "Cl") = ActiveCount(hist.old1, "Cl") + 1

\* the calls of sample(), among the first k, that are a multiple of n and
\* come after the first s calls
SamplingCalls(k, n, s) == {j \in 1..k : n >= 1 /\ j % n = 0 /\ j > s}

C19_SaveStateEveryNth ==
    ana.kind = "savestate" =>
        /\ ana.steps = -1 =>
              /\ ana.insample = 0
              /\ ana.runs = IF ana.alive THEN 0 ELSE 1
        /\ ana.steps >= 1 =>
              /\ ana.insample = Cardinality(SamplingCalls(ana.calls, ana.steps, 0))
              /\ ana.runs = ana.insample

\* C19 (amended): a savestate analysis with nstep = -1 writes exactly once,
\* on destruction, and never in sample(); with nstep = n >= 1 it writes on
\* every n-th call of sample() that comes after the first nskip calls, and
\* not on destruction.
C19_SaveStateEveryNthAfterSkip ==
    ana.kind = "savestate" =>
        /\ ana.steps = -1 =>
              /\ ana.insample = 0
              /\ ana.runs = IF ana.alive THEN 0 ELSE 1
        /\ ana.steps >= 1 =>
              /\ ana.last = "sample" =>
                    (ana.invoked <=>
                        ana.calls \in SamplingCalls(ana.calls, ana.steps, ana.nskip))
              /\ ana.insample = Cardinality(SamplingCalls(ana.calls, ana.steps, ana.nskip))
              /\ ana.runs = ana.insample

\* C19 witness: a savestate analysis with nstep = -1 destroyed after three
\* calls of sample() has written once
C19_Witness ==
    /\ ana.kind = "savestate" /\ ana.steps = -1
    /\ ~ana.alive /\ ana.calls = 3
    /\ ana.runs = 1 /\ ana.insample = 0

\* the other case of C19 is reached as well: nstep = 2, nskip = 1, destroyed
\* after four calls, two states written
C19_IntervalReached ==
    /\ ana.kind = "savestate" /\ ana.steps = 2 /\ ana.nskip = 1
    /\ ~ana.alive /\ ana.calls = 4
    /\ ana.runs = 2

\* C20 (as claimed): a sanity analysis with nstep = -1 runs its checks once
\* at the end of the simulation: when its lifetime has ended,
\* SanityCheck::_sample() has been executed.
C20_SanityRunsAtEnd ==
    (ana.kind = "sanity" /\ ana.steps = -1 /\ ~ana.alive) => ana.runs >= 1

\* what the code does: with nstep = -1 the checks are never run
C20_SanityNeverRuns ==
    (ana.kind = "sanity" /\ ana.steps = -1) => ana.runs = 0

\* C21: on every path through VirtualVolume::_sample (perturbation skipped,
\* sample counted, sample discarded) the cell volume after the call equals
\* the cell volume before the call.
C21_VolumeReverts ==
    (probe.fn = "virtualvolume" /\ probe.n > 0) => probe.obj.V = probe.pre.V

\* C21 witness: all three paths are taken; here a sample was discarded after
\* the volume had been perturbed, and an earlier one was counted
C21_Witness ==
    /\ probe.fn = "virtualvolume"
    /\ probe.obj.path = "discarded"
    /\ probe.obj.dV # 0
    /\ probe.obj.duexp > 0
    /\ probe.obj.V = probe.pre.V

\* C21: the skipped path is taken too (dV below the threshold)
C21_SkipReached ==
    probe.fn = "virtualvolume" /\ probe.obj.path = "skipped" /\ probe.n > 0

\* the slots of the ghost group of the Widom analysis
GhostSlots == GroupSlots(state1.groups[widom.index + 1])

\* C22 (as claimed): after every Widom sampling event each group's active
\* size is what it was before the event and no particle outside the ghost
\* group has been modified.
C22_NonPerturbing ==
    (pc = "sampled" /\ hist.last = "widom") =>
        /\ SameSizes(state1, hist.old1)
        /\ \A s \in 1..Len(state1.p) :
              s \notin GhostSlots => state1.p[s] = hist.old1.p[s]

\* C22, the part that holds: an event that starts with the ghost group
\* inactive restores every size; no event modifies a particle of another group
C22_NonPerturbingIfGhostInactive ==
    (pc = "sampled" /\ hist.last = "widom") =>
        /\ hist.old1.groups[widom.index + 1].size = 0 => SameSizes(state1, hist.old1)
        /\ \A s \in 1..Len(state1.p) :
              s \notin GhostSlots => state1.p[s] = hist.old1.p[s]

\* C22: an event with insertions that started with the ghost group inactive
C22_InactiveReached ==
    /\ pc = "sampled" /\ hist.last = "widom"
    /\ widom.ninsert = 2
    /\ hist.old1.groups[widom.index + 1].size = 0
    /\ \E s \in GhostSlots : state1.p[s] # hist.old1.p[s]

\* C23 (as claimed): after a Widom sampling event every slot of the ghost
\* group holds the same particle in the accepted and in the trial Space.
C23_GhostSlotsIdentical ==
    (pc = "sampled" /\ hist.last = "widom") =>
        \A s \in GhostSlots : state1.p[s] = state2.p[s]

\* C23: without insertions (ninsert = 0) the slots do stay identical as long
\* as the ghost group was inactive
C23_IdenticalWithoutInsertion ==
    (pc = "sampled" /\ hist.last = "widom" /\ widom.ninsert = 0
        /\ hist.old1.groups[widom.index + 1].size = 0) =>
        \A s \in GhostSlots : state1.p[s] = state2.p[s]

\* C27 (as claimed): the ghost group is inactive at the start of every
\* sampling event, in every interleaving of speciation moves and events.
C27_GhostEmptyAtSampling == widom.emptyok

\* C27 (as claimed, second half): a sampling event never deactivates a
\* group that a move had activated.
C27_NeverDeactivatesActivated ==
    (pc = "sampled" /\ hist.last = "widom") =>
        state1.groups[widom.index + 1].size >= hist.old1.groups[widom.index + 1].size

\* C30 (as claimed): an insertion only touches indices of pin smaller than
\* the number of inserted particles.
C30_PinIndicesInRange ==
    (probe.fn = "widom" /\ probe.n > 0) =>
        \A i \in probe.obj.touched : i < Len(probe.obj.pin)

\* C30: with two or more particles, as in the ghost molecule M, the indices
\* are in range
C30_InRangeFromTwo ==
    (probe.fn = "widom" /\ probe.n > 0 /\ Len(probe.obj.pin) >= 2) =>
        \A i \in probe.obj.touched : i < Len(probe.obj.pin)

\* C24: every frame of the charge-radius trajectory has exactly one pair per
\* slot of the particle array, in slot order: charge and radius of the
\* particle for an active slot, 0 0 for an inactive one; so the number of
\* pairs equals the length of the particle array whatever the active sizes.
C24_FramePerSlot ==
    (pc = "sampled" /\ hist.last = "qrtraj") =>
        /\ Len(probe.obj) = Len(state1.p)
        /\ \A s \in 1..Len(state1.p) :
              probe.obj[s] = IF s \in ActiveSlots(state1)
                             THEN <<atoms[state1.p[s].id].charge,
                                    atoms[state1.p[s].id].sigma \div 2>>
                             ELSE <<0, 0>>

\* C24 witness: a frame written when the sizes differ from the initial ones
\* (a molecule deactivated by an accepted move) and inactive slots exist in
\* atomic and in molecular groups
C24_Witness ==
    /\ pc = "sampled" /\ hist.last = "qrtraj"
    /\ Len(findMolecules(state1, "M", "ACTIVE")) < NMol
    /\ state1.groups[2].size < state1.groups[2].capacity
    /\ Len(probe.obj) = NParticles

\* C25 (as claimed): reading back the document written by to_json restores
\* the id, the position, the charge and every field of the shape, so that
\* serializing again yields the same document.
C25_RoundTrip ==
    (probe.fn = "particle" /\ probe.n > 0) =>
        /\ probe.obj = probe.pre
        /\ Particle_to_json(probe.obj) = Particle_to_json(probe.pre)

\* C25, the part that holds: everything except the induced-dipole magnitude
\* muilen is restored
C25_RoundTripExceptMuilen ==
    (probe.fn = "particle" /\ probe.n > 0) =>
        [probe.obj EXCEPT !.shape.muilen = 0] = [probe.pre EXCEPT !.shape.muilen = 0]

\* C25: particles with a polarizable shape are read back
C25_PolarizableReached ==
    /\ probe.fn = "particle" /\ probe.n > 0
    /\ probe.pre.shape.props = ShapeProps
    /\ probe.pre.shape.muilen # probe.pre.shape.mulen
    /\ probe.obj.shape.mui = probe.pre.shape.mui

\* the sum of the potentials listed in the array j for atom types a and b at
\* squared distance r2: infinite if a listed hardsphere is below contact,
\* otherwise the listed terms
ListedSum(j, a, b, r2) ==
    [inf |-> \E i \in 1..Len(j) : j[i] = "hardsphere" /\ r2 < HardSphere_d2(a, b),
     terms |-> [i \in 1..Len(SelectSeq(j, LAMBDA x : x # "hardsphere")) |->
                  <<SelectSeq(j, LAMBDA x : x # "hardsphere")[i], a, b, r2>>]]

\* the entries of configuration j for the pair (a, b), in either order
EntriesFor(j, a, b) == {k \in DOMAIN j.pairs : FunctorKeys[k] \in {<<a, b>>, <<b, a>>}}

C26_HardSphereReached ==
    /\ probe.fn = "functor" /\ probe.n > 0
    /\ 4 \in DOMAIN probe.obj.j.pairs
    /\ probe.obj.j.pairs[4] = <<"hardsphere">>
    /\ probe.obj.a = "X" /\ probe.obj.b = "X"
    /\ probe.obj.u.inf

\* an entry that names a known analysis with a valid option object
GoodEntry(m) == m[1].key \in KnownAnalyses /\ m[1].value = "valid"

\* C28 (as claimed): building the analysis list fails whenever an entry does
\* not name a known analysis with a valid option object; after a successful
\* build the list holds one analysis per entry, in configuration order.
C28_FatalOrOnePerEntry ==
    (probe.fn = "analysis" /\ probe.n > 0) =>
        LET o == probe.obj
        IN  /\ (\E i \in 1..Len(o.j) : ~GoodEntry(o.j[i])) => o.error
            /\ ~o.error => o.vec = [i \in 1..Len(o.j) |-> o.j[i][1].key]

\* C28, what the code does: the build fails exactly if some entry with an
\* object value is unknown or invalid; entries whose value is not an object
\* are skipped, and a successful build lists the others in order
C28_FatalForObjectsOnly ==
    (probe.fn = "analysis" /\ probe.n > 0) =>
        LET o == probe.obj
            objects == SelectSeq(o.j, LAMBDA m : m[1].value # "notobject")
        IN  /\ o.error <=> \E i \in 1..Len(objects) : ~GoodEntry(objects[i])
            /\ ~o.error => o.vec = [i \in 1..Len(objects) |-> objects[i][1].key]

\* C28: a build that fails on the second entry, and one that succeeds with
\* two analyses
C28_FatalReached ==
    /\ probe.fn = "analysis" /\ probe.n > 0
    /\ Len(probe.obj.j) = 2 /\ GoodEntry(probe.obj.j[1])
    /\ probe.obj.j[2][1].key = "bogus" /\ probe.obj.j[2][1].value = "valid"
    /\ probe.obj.error

\* C29 (as claimed): the step number written on an output line equals the
\* number of sample() calls made so far when the line is written.
C29_StepIsCallCount ==
    (ana.kind = "analysis" /\ ana.last = "sample" /\ ana.invoked) =>
        StepWritten(ana) = ana.calls

\* C29, what the code does: the step number written is nstep times the
\* number of lines written so far; it is the number of calls when nskip < nstep
C29_StepIsLineCount ==
    (ana.kind = "analysis" /\ ana.last = "sample" /\ ana.invoked) =>
        /\ StepWritten(ana) = ana.steps * ana.insample
        /\ ana.nskip < ana.steps => StepWritten(ana) = ana.calls

\* C29: a line is written after calls were skipped
C29_SkipReached ==
    /\ ana.kind = "analysis" /\ ana.last = "sample" /\ ana.invoked
    /\ ana.nskip >= ana.steps
    /\ ana.insample = 2

====
